---- MODULE Spec2Model ----
(***************************************************************************)
(* The request pipeline of the ElevenLabs MCP servers: one client instance *)
(* with its response cache, the fire-and-forget expiry tasks, and the      *)
(* retry_with_backoff decorator around the network call.  Tool invocations *)
(* are cooperative tasks; a step of the model is the code that runs        *)
(* between two suspension points (await of the network, asyncio.sleep).    *)
(***************************************************************************)
EXTENDS Bags, FiniteSets, Integers, Sequences, TLC

(* ------------------------------ bounds -------------------------------- *)
MaxRetriesCfg == 2     \* MAX_RETRIES is drawn from 0..MaxRetriesCfg
CacheTtlTicks == 2     \* CACHE_TTL, in clock ticks
MaxPending == 2        \* cap on the expiry tasks that exist at one time
MaxDelayRetries == 8   \* MAX_RETRIES is drawn from 0..MaxDelayRetries in SpecDelay
MaxInvocations == 4    \* cap on the tool invocations one server process serves
MaxTextLen == 5        \* longest text chunk_text is given
MaxChunkSize == 3      \* largest chunk_size chunk_text is given
MaxIterations == 6     \* iterations of the loop of chunk_text followed

\* concurrent tool invocations sharing the client
Tasks == {1, 2}
\* the clock stops advancing here
MaxTime == CacheTtlTicks + 1

(* ------------------------------ inputs -------------------------------- *)
\* params: Optional[Dict].  A dict is the sequence of its (key, value)
\* items in insertion order; isNone distinguishes None from a dict.
NoParams == [isNone |-> TRUE, items |-> <<>>]
LimitOffset == [isNone |-> FALSE, items |-> << <<"limit", "100">>, <<"offset", "0">> >>]

ListCached(params) ==
  [method |-> "GET", endpoint |-> "/convai/conversations",
   params |-> params, use_cache |-> TRUE]

\* The _request call concurrent tool invocations make: one cached listing.
RequestArgs == {ListCached(LimitOffset)}

\* The _request calls one tool invocation makes in sequence: the cached
\* listing with its query written in either key order, an uncached read and
\* a write.
SeqArgs ==
  {ListCached(LimitOffset),
   ListCached([isNone |-> FALSE, items |-> << <<"offset", "0">>, <<"limit", "100">> >>]),
   [method |-> "GET", endpoint |-> "/convai/conversations",
    params |-> NoParams, use_cache |-> FALSE],
   [method |-> "POST", endpoint |-> "/convai/conversations",
    params |-> NoParams, use_cache |-> FALSE]}

\* response.text of a 2xx answer: empty, or a JSON document
BodyTexts == {"", "b1"}

\* What one await of client.request(...) can produce.
NetOutcomes == {[kind |-> "timeout", status |-> 0, text |-> ""],
                [kind |-> "network", status |-> 0, text |-> ""],
                [kind |-> "response", status |-> 404, text |-> ""]}
                  \cup {[kind |-> "response", status |-> 200, text |-> t] : t \in BodyTexts}

(* ------------------------------- state -------------------------------- *)
VARIABLES
  variant,        \* which retry_with_backoff the package ships
  MAX_RETRIES,    \* Config.MAX_RETRIES
  now,            \* the event loop's clock
  cache,          \* self._cache
  storedAt,       \* for each cache key, the clock at the store that wrote it
  expiries,       \* bag of pending _expire_cache tasks
  pc,             \* where each tool invocation is suspended
  req,            \* the arguments of its _request call
  attempts,       \* network calls made by the current _request call
  last_exception, \* the retry wrapper's last_exception
  lastFailure,    \* the exception the most recent failed network call ended with
  allTransient,   \* every failed network call of the call was a timeout/network error
  respText,       \* response.text of the network call that succeeded
  result,         \* value the _request call returned
  raised,         \* exception the _request call raised
  hit,            \* the call was answered from the cache
  seqFirst,       \* value of the preceding call when this call repeats it in sequence
  seqIdentical,   \* ... and its arguments are identical, key order included
  binary,         \* the call is a _request_binary call
  delay,          \* the retry wrapper's delay
  sleep_time,     \* the wait the wrapper chose for its current sleep
  validated,      \* the last validate_elevenlabs_id call: arguments and result
  formatted,      \* the last format_success / format_error call: arguments and result
  tool,           \* the tool invocation: the tool function and its arguments
  toolPc,         \* "idle", "calling" (awaiting the client) or "done"
  envelope,       \* the dict the tool function returned
  requests,       \* HTTP requests the invocation has issued
  escaped,        \* the exception that left the tool function, "none" if none did
  server,         \* the package of the server process
  phase,          \* "init", "serving" or "stopped"
  global_client,  \* the module-level client: index into clients, 0 for None
  clients,        \* the ElevenLabsClient instances constructed in the process
  using,          \* the client the last tool invocation called, 0 for none
  served,         \* tool invocations served by the process
  upstream,       \* the body the upstream holds for the resource the tools address
  upAtCall,       \* upstream when the last tool invocation began
  written,        \* a write through the client has succeeded
  inner,          \* the envelope of the create_agent call the tool function made
  enhanced,       \* cache keys whose stored object a caller has modified in place
  AGENT_TEMPLATES,\* the process-wide table of agent templates
  chunker         \* chunk_text: its arguments and the locals of its loop

vars == <<variant, MAX_RETRIES, now, cache, storedAt, expiries, pc, req,
          attempts, last_exception, lastFailure, allTransient, respText,
          result, raised, hit, seqFirst, seqIdentical, binary,
          delay, sleep_time, validated, formatted,
          tool, toolPc, envelope, requests, escaped,
          server, phase, global_client, clients, using, served,
          upstream, upAtCall, written, inner, enhanced, AGENT_TEMPLATES, chunker>>

\* the state of the request pipeline
pipeVars == <<variant, MAX_RETRIES, now, cache, storedAt, expiries, pc, req,
              attempts, last_exception, lastFailure, allTransient, respText,
              result, raised, hit, seqFirst, seqIdentical, binary,
              delay, sleep_time>>

\* what lives above the pipeline: the records of the calls of the helpers
callerVars == <<validated, formatted, tool, toolPc, envelope, requests, escaped,
                server, phase, global_client, clients, using, served,
                upstream, upAtCall, written, inner, enhanced, AGENT_TEMPLATES, chunker>>

\* the objects shared between callers, and the locals of chunk_text
moreVars == <<enhanced, AGENT_TEMPLATES, chunker>>

\* the resource as the upstream holds it
upVars == <<upstream, upAtCall, written>>

\* the clients of a server process
procVars == <<server, phase, global_client, clients, using, served>>

\* the state of the helper calls and of the tool invocation
utilToolVars == <<validated, formatted, tool, toolPc, envelope, requests, escaped, inner>>

\* the state of a tool invocation
toolVars == <<tool, toolPc, envelope, requests, escaped, inner>>

NoReq == [method |-> "GET", endpoint |-> "/convai/conversations",
          params |-> NoParams, use_cache |-> FALSE]

(* --------------------------- pure functions --------------------------- *)
RECURSIVE DumpItems(_)
\* the items of json.dumps(d): "k": v joined by ", " in the dict's own order
DumpItems(d) ==
  IF d = <<>> THEN <<>>
  ELSE <<Head(d)[1], ": ", Head(d)[2]>>
         \o (IF Len(d) > 1 THEN <<", ">> ELSE <<>>)
         \o DumpItems(Tail(d))

\* json.dumps(d), as the sequence of its tokens
JsonDumps(d) == <<"{">> \o DumpItems(d) \o <<"}">>

\* params or {}
ParamsOrEmpty(params) == IF params.isNone \/ params.items = <<>> THEN <<>> ELSE params.items

\* f"{method}:{endpoint}:{json.dumps(params or {})}"
CacheKey(method, endpoint, params) ==
  <<method, ":", endpoint, ":">> \o JsonDumps(ParamsOrEmpty(params))

KeyOf(r) == CacheKey(r.method, r.endpoint, r.params)

\* use_cache and method == "GET"
Cacheable(use_cache, method) == use_cache /\ method = "GET"

\* the cache is consulted for the wrong verb
CacheHitPost(use_cache, method, key, c) ==
  use_cache /\ method = "POST" /\ key \in DOMAIN c

\* use_cache and method == "GET" and cache_key in self._cache
CacheHit(use_cache, method, key, c) == Cacheable(use_cache, method) /\ key \in DOMAIN c

\* self._cache[cache_key] = result
CacheStore(c, key, value) == [k \in DOMAIN c \cup {key} |-> IF k = key THEN value ELSE c[k]]

\* self._cache.get(key, None): the entry is read, not removed
CachePopKeep(c, key) == c

\* self._cache.pop(key, None)
CachePop(c, key) == [k \in DOMAIN c \ {key} |-> c[k]]

\* the sleep runs one tick longer than the TTL
ExpiryDueLate(t) == t + CacheTtlTicks + 1

\* asyncio.sleep(Config.CACHE_TTL) started at clock t ends at
ExpiryDue(t) == t + CacheTtlTicks

\* response.json() if response.text else {}
ParseBody(text) == IF text = "" THEN "{}" ELSE text

\* response.content: the body as received
Content(text) == text

\* the exception one network call ends with, "ok" if it ends with none
\* (response.raise_for_status() raises HTTPStatusError unless 2xx)
OutcomeTag(o) ==
  IF o.kind = "response"
  THEN (IF o.status >= 200 /\ o.status < 300 THEN "ok" ELSE "http")
  ELSE o.kind

\* httpx.TimeoutException, httpx.NetworkError
Transient == {"timeout", "network"}

\* httpx.NetworkError is missing from the except clause
RetryableTimeoutOnly(v, exc) ==
  IF v = "shared" THEN TRUE ELSE exc = "timeout"

\* which exceptions the decorator catches and retries
Retryable(v, exc) ==
  IF v = "shared" THEN TRUE ELSE exc \in Transient

\* for attempt in range(max_retries + 1)
InRangeOver(attempt, max_retries) == attempt <= max_retries

\* for attempt in range(max_retries)
InRange(attempt, max_retries) == attempt < max_retries

\* if attempt < max_retries - 1: sleep before the next iteration
SleepsAgain(attempt, max_retries) == attempt < max_retries - 1

\* retry_with_backoff's defaults
initial_delay == 1
max_delay == 60
exponential_base == 2

Min(a, b) == IF a <= b THEN a ELSE b

\* the wait before the next attempt, after the failure of the 0-based attempt:
\* sleep_time = min(delay, max_delay) in the shared decorator,
\* wait_time = 2 ** attempt in the standalone one
SleepTime(v, d, attempt) ==
  IF v = "shared" THEN Min(d, max_delay) ELSE 2 ^ attempt

\* delay *= exponential_base (the standalone decorator keeps no delay)
DelayAfter(v, d) == IF v = "shared" THEN d * exponential_base ELSE d

\* last_exception = e
RecordException(old, e) == e

\* the two queries hold the same key/value pairs
SameQuery(p1, p2) ==
  LET d1 == ParamsOrEmpty(p1)
      d2 == ParamsOrEmpty(p2)
  IN  {d1[i] : i \in DOMAIN d1} = {d2[i] : i \in DOMAIN d2}

(* ------------------- Python values, strings and IDs -------------------- *)
\* A Python value is the sequence of its tokens: None, the empty string, the
\* empty dict.
None == <<"None">>
EmptyStr == <<>>
EmptyDict == <<"{", "}">>

\* bool(x) of a value: None, "", {} and [] are falsy
Truthy(x) == x \notin {None, EmptyStr, EmptyDict, <<"[", "]">>}

\* An ID argument is a str, the sequence of its characters, or None.
PyNone == [isNone |-> TRUE, chars |-> <<>>]
Str(chars) == [isNone |-> FALSE, chars |-> chars]

Rep(c, n) == [i \in 1..n |-> c]

HexDigits == {"0", "1", "2", "3", "4", "5", "6", "7", "8", "9"} \cup {"a", "b", "c", "d", "e", "f", "A", "B", "C", "D", "E", "F"}
\* [a-zA-Z0-9]
Alnum ==
  HexDigits \cup
  {"g", "h", "i", "j", "k", "l", "m", "n", "o", "p", "q", "r", "s", "t", "u",
   "v", "w", "x", "y", "z", "G", "H", "I", "J", "K", "L", "M", "N", "O", "P",
   "Q", "R", "S", "T", "U", "V", "W", "X", "Y", "Z"}

AllIn(s, S) == \A i \in DOMAIN s : s[i] \in S
StartsWith(s, pre) == Len(s) >= Len(pre) /\ SubSeq(s, 1, Len(pre)) = pre
After(s, pre) == SubSeq(s, Len(pre) + 1, Len(s))

\* re.match(r'^<prefix>[a-zA-Z0-9]{lo,hi}$', s)
MatchPattern(pat, s) ==
  /\ StartsWith(s, pat.prefix)
  /\ Len(After(s, pat.prefix)) \in pat.lo..pat.hi
  /\ AllIn(After(s, pat.prefix), Alnum)

\* re.match(r'^<prefix>[a-zA-Z0-9]+$', s)
MatchPrefixPlus(prefix, s) ==
  /\ StartsWith(s, prefix)
  /\ Len(After(s, prefix)) >= 1
  /\ AllIn(After(s, prefix), Alnum)

\* UUID(value) raises nothing: with the hyphens removed, 32 hex digits
\* (the ID arguments drawn carry no braces and no urn: prefix)
validate_uuid(value) ==
  LET hex == SelectSeq(value.chars, LAMBDA c : c # "-")
  IN  Len(hex) = 32 /\ AllIn(hex, HexDigits)

\* patterns of the shared validate_elevenlabs_id
SharedPatterns ==
  [agent        |-> [prefix |-> <<"a", "g", "e", "n", "t", "_">>, lo |-> 28, hi |-> 28],
   conversation |-> [prefix |-> <<"c", "o", "n", "v", "_">>, lo |-> 28, hi |-> 28],
   command      |-> [prefix |-> <<"c", "o", "m", "m", "a", "n", "d", "_">>, lo |-> 26, hi |-> 26],
   document     |-> [prefix |-> <<>>, lo |-> 16, hi |-> 32],
   phone        |-> [prefix |-> <<"p", "h", "o", "n", "e", "_">>, lo |-> 24, hi |-> 24],
   webhook      |-> [prefix |-> <<"w", "e", "b", "h", "o", "o", "k", "_">>, lo |-> 24, hi |-> 24]]

\* prefixes of the standalone validate_elevenlabs_id, each followed by
\* [a-zA-Z0-9]+
StandalonePrefixes ==
  [agent        |-> <<"a", "g", "e", "n", "t", "_">>,
   conversation |-> <<"c", "o", "n", "v", "_">>,
   document     |-> <<"d", "o", "c", "_">>,
   test         |-> <<"t", "e", "s", "t", "_">>,
   tool         |-> <<"t", "o", "o", "l", "_">>,
   server       |-> <<"s", "e", "r", "v", "e", "r", "_">>,
   secret       |-> <<"s", "e", "c", "r", "e", "t", "_">>,
   widget       |-> <<"w", "i", "d", "g", "e", "t", "_">>,
   invocation   |-> <<"i", "n", "v", "_">>]

\* validate_elevenlabs_id of agents/shared/utils.py
SharedValidate(value, id_type) ==
  IF value.isNone \/ value.chars = <<>> THEN "False"
  ELSE IF validate_uuid(value) THEN "True"
  ELSE IF id_type # "None" /\ id_type # "" /\ id_type \in DOMAIN SharedPatterns
  THEN (IF MatchPattern(SharedPatterns[id_type], value.chars) THEN "True" ELSE "False")
  ELSE IF \E t \in DOMAIN SharedPatterns : MatchPattern(SharedPatterns[t], value.chars)
  THEN "True"
  ELSE IF MatchPattern([prefix |-> <<>>, lo |-> 8, hi |-> 40], value.chars) THEN "True"
  ELSE "False"

\* validate_elevenlabs_id of the standalone utils.py: patterns.get(id_type),
\* then re.match(pattern, id_value), which raises TypeError on None
StandaloneValidate(value, id_type) ==
  IF id_type \notin DOMAIN StandalonePrefixes THEN "False"
  ELSE IF value.isNone THEN "TypeError"
  ELSE IF MatchPrefixPlus(StandalonePrefixes[id_type], value.chars) THEN "True"
  ELSE "False"

validate_elevenlabs_id(v, value, id_type) ==
  IF v = "shared" THEN SharedValidate(value, id_type)
  ELSE StandaloneValidate(value, id_type)

(* ------------------------- response envelopes -------------------------- *)
\* the dict with the fields of names, taken from all
Fields(names, all) == [n \in names |-> all[n]]

\* format_success: the shared one tests `if data:`, the standalone one
\* `if data is not None:`
format_success(v, message, data) ==
  LET all == [success |-> TRUE, message |-> message, data |-> data]
      has_data == IF v = "shared" THEN Truthy(data) ELSE data # None
  IN  Fields({"success", "message"} \cup (IF has_data THEN {"data"} ELSE {}), all)

\* the diagnostic context is reported under data
SharedFormatErrorAsData(error, details, suggestion) ==
  LET all == [success |-> FALSE, error |-> error, data |-> details,
              suggestion |-> suggestion]
  IN  Fields({"success", "error"}
               \cup (IF Truthy(details) THEN {"data"} ELSE {})
               \cup (IF Truthy(suggestion) THEN {"suggestion"} ELSE {}), all)

\* format_error(error, details=None, suggestion=None) of agents/shared/utils.py
SharedFormatError(error, details, suggestion) ==
  LET all == [success |-> FALSE, error |-> error, details |-> details,
              suggestion |-> suggestion]
  IN  Fields({"success", "error"}
               \cup (IF Truthy(details) THEN {"details"} ELSE {})
               \cup (IF Truthy(suggestion) THEN {"suggestion"} ELSE {}), all)

\* format_error(error, suggestion=None) of the standalone utils.py
StandaloneFormatError(error, suggestion) ==
  LET all == [success |-> FALSE, error |-> error, suggestion |-> suggestion]
  IN  Fields({"success", "error"}
               \cup (IF Truthy(suggestion) THEN {"suggestion"} ELSE {}), all)

\* format_error(error, suggestion=s)
format_error_kw(v, error, s) ==
  IF v = "shared" THEN SharedFormatError(error, None, s)
  ELSE StandaloneFormatError(error, s)

\* format_error(error, second): the second positional parameter is details
\* in the shared signature and suggestion in the standalone one
format_error_pos(v, error, second) ==
  IF v = "shared" THEN SharedFormatError(error, second, None)
  ELSE StandaloneFormatError(error, second)

(* ---------------------- inputs of the pure helpers --------------------- *)
\* 550e8400-e29b-41d4-a716-446655440000
UuidSample ==
  <<"5", "5", "0", "e", "8", "4", "0", "0", "-", "e", "2", "9", "b", "-",
    "4", "1", "d", "4", "-", "a", "7", "1", "6", "-",
    "4", "4", "6", "6", "5", "5", "4", "4", "0", "0", "0", "0">>

IdLen == 28

AgentPrefix == <<"a", "g", "e", "n", "t", "_">>
ConvPrefix == <<"c", "o", "n", "v", "_">>

Messages == {<<"ok">>, EmptyStr}

(* ---------------------------- tool functions --------------------------- *)
NoEnvelope == Fields({}, <<>>)

Bot == <<"B", "o", "t">>

\* name.strip() is empty
Blank(name) == \A i \in DOMAIN name : name[i] = " "

\* float(temperature) succeeds for these strings; the value in tenths
FloatTenths == [t \in {"0.5", "1.5"} |-> IF t = "0.5" THEN 5 ELSE 15]
IsFloat(t) == t \in DOMAIN FloatTenths

\* 0.0 <= temperature_float <= 1.0
TemperatureInRange(t) == 0 <= FloatTenths[t] /\ FloatTenths[t] <= 10

valid_languages == {"en", "es", "fr", "de", "it", "pt", "pl", "hi", "ja", "ko", "zh"}

min_prompt_len == 10
min_first_message_len == 5

\* the utils a tool function's package ships
PackageOf(fn) ==
  IF fn \in {"get_conversation", "get_secrets", "create_secret", "get_test_invocation"}
  THEN "standalone"
  ELSE "shared"

GoodAgentId == Str(AgentPrefix \o Rep("k", IdLen))
GoodConvId == Str(ConvPrefix \o Rep("k", IdLen))

CreateBase == [fn |-> "create_agent", id |-> PyNone, temperature |-> "0.5",
               name |-> Bot, prompt |-> Rep("p", min_prompt_len),
               first |-> Rep("h", min_first_message_len), language |-> "en",
               value |-> "", template |-> "", modifications |-> "None"]

\* a tool function invoked with an ID, its other arguments left out
ToolCall(fn, id) ==
  [fn |-> fn, id |-> id, temperature |-> "None", name |-> <<>>, prompt |-> <<>>,
   first |-> <<>>, language |-> "en", value |-> "", template |-> "", modifications |-> "None"]

UpdateBase == [fn |-> "update_agent", id |-> GoodAgentId, temperature |-> "None",
               name |-> Bot, prompt |-> <<>>, first |-> <<>>, language |-> "en",
               value |-> "", template |-> "", modifications |-> "None"]

\* the value of a secret, as the caller passes it and as the upstream holds it
SecretValue == "s3cr3t"

\* agent_templates.json as loaded into AGENT_TEMPLATES: one template, with the
\* fields of its config that create_agent_from_template passes on and no
\* voice_settings.
TemplatesFile ==
  [customer_support_pro |->
     [name |-> Bot,
      config |-> [system_prompt |-> Rep("p", min_prompt_len),
                  first_message |-> Rep("h", min_first_message_len),
                  temperature |-> "0.5", language |-> "en"]]]

\* create_agent_from_template(template_name, custom_name, modifications):
\* modifications is None or {"temperature": modifications}; the other fields
\* are the arguments of the create_agent call it makes, filled in from the
\* template when the function is invoked.
TemplateBase == [fn |-> "create_agent_from_template", id |-> PyNone,
                 temperature |-> "None", name |-> <<>>, prompt |-> <<>>,
                 first |-> <<>>, language |-> "en", value |-> "",
                 template |-> "customer_support_pro", modifications |-> "None"]

\* The invocations of create_agent_from_template drawn.
TemplateCalls ==
  {[TemplateBase EXCEPT !.template = n] : n \in {"customer_support_pro", "missing"}}
    \cup {[TemplateBase EXCEPT !.name = n] : n \in {<<>>, <<" ">>, Bot}}
    \cup {[TemplateBase EXCEPT !.modifications = m] : m \in {"None", "0.5", "1.5"}}

\* if modifications: for key, value in modifications.items():
\*     if key in config: config[key] = value
\* config is template.get("config", {}), the dict inside the table
ApplyModifications(templates, t) ==
  IF t.template \in DOMAIN templates /\ t.modifications # "None"
  THEN [templates EXCEPT ![t.template].config.temperature = t.modifications]
  ELSE templates

\* The arguments of create_agent(...) as create_agent_from_template builds
\* them from the config, after the modifications were applied:
\* name = custom_name or template.get("name"), str(config.get("temperature"))
TemplateArgs(templates, t) ==
  IF t.template \in DOMAIN templates
  THEN LET template == ApplyModifications(templates, t)[t.template]
       IN [t EXCEPT !.name = (IF t.name # <<>> THEN t.name ELSE template.name),
                    !.prompt = template.config.system_prompt,
                    !.first = template.config.first_message,
                    !.temperature = template.config.temperature,
                    !.language = template.config.language]
  ELSE t

Temperatures == {"None", "0.5", "1.5", "abc"}

\* The invocations drawn: each argument varied over valid and invalid values.
ToolCalls ==
  {[CreateBase EXCEPT !.name = n] : n \in {<<>>, <<" ">>, Bot}}
    \cup {[CreateBase EXCEPT !.prompt = Rep("p", n)] : n \in {min_prompt_len - 1, min_prompt_len}}
    \cup {[CreateBase EXCEPT !.first = Rep("h", n)] : n \in {min_first_message_len - 1, min_first_message_len}}
    \cup {[CreateBase EXCEPT !.temperature = t] : t \in Temperatures}
    \cup {[CreateBase EXCEPT !.language = l] : l \in {"en", "xx"}}
    \cup {[UpdateBase EXCEPT !.id = i] :
            i \in {GoodAgentId, Str(UuidSample), Str(AgentPrefix \o Rep("k", IdLen - 1)),
                   Str(<<>>), PyNone}}
    \cup {[UpdateBase EXCEPT !.temperature = t] : t \in Temperatures}
    \cup {[UpdateBase EXCEPT !.name = <<>>]}
    \cup {ToolCall("get_conversation", i) :
            i \in {GoodConvId, Str(ConvPrefix \o Rep("k", IdLen - 1)),
                   Str(AgentPrefix \o Rep("k", IdLen)), Str(<<>>), PyNone}}
    \cup {ToolCall("get_secrets", i) : i \in {PyNone, GoodAgentId, Str(<<"b", "a", "d">>)}}
    \cup {[ToolCall("create_secret", i) EXCEPT !.name = <<"k", "e", "y">>, !.value = SecretValue] :
            i \in {GoodAgentId, Str(<<"b", "a", "d">>)}}

\* {key: value}
Dict1(key, value) == <<"{", key, ": ">> \o value \o <<"}">>

\* str(e)
StrOf(exc) == <<exc>>

\* the handler of create_agent picks its suggestion by substrings of the
\* message; none of "voice_id", "model", "unauthorized", "401" occurs in the
\* messages of the exceptions drawn
CreateSuggestion(exc) == <<"Check API key and ensure all parameters are valid">>

\* only HTTP errors are caught
ToolCatchesHttpOnly(exc) == exc = "http"

\* except Exception as e
ToolCatches(exc) == TRUE

\* What the tool function does before it awaits the client: "envelope"
\* when it returns one, "error" when an exception is raised (inTry tells
\* whether inside the try block), "call" with the _request it makes.
Returns(env) ==
  [kind |-> "envelope", env |-> env, exc |-> "none", inTry |-> FALSE, r |-> NoReq,
   inner |-> NoEnvelope]
Raises(exc, inTry) ==
  [kind |-> "error", env |-> NoEnvelope, exc |-> exc, inTry |-> inTry, r |-> NoReq,
   inner |-> NoEnvelope]
Calls(r) ==
  [kind |-> "call", env |-> NoEnvelope, exc |-> "none", inTry |-> TRUE, r |-> r,
   inner |-> NoEnvelope]

\* create_agent of agents/src/server.py up to client.create_agent(...)
CreateAgentEntry(t) ==
  IF t.name = <<>> \/ Blank(t.name)
  THEN Returns(format_error_pos("shared", <<"Agent name cannot be empty">>,
                                <<"Provide a descriptive name like 'Customer Support' or 'Sales Assistant'">>))
  ELSE IF t.prompt = <<>> \/ Len(t.prompt) < min_prompt_len
  THEN Returns(format_error_pos("shared", <<"System prompt too short">>,
                                <<"Provide clear instructions at least 10 characters long">>))
  ELSE IF t.first = <<>> \/ Len(t.first) < min_first_message_len
  THEN Returns(format_error_pos("shared", <<"First message too short">>,
                                <<"Provide a greeting at least 5 characters long">>))
  ELSE IF t.temperature # "None" /\ ~IsFloat(t.temperature)
  THEN Returns(format_error_pos("shared", <<"Temperature must be a number">>,
                                <<"Use a value between 0.0 (deterministic) and 1.0 (creative)">>))
  ELSE IF t.temperature # "None" /\ ~TemperatureInRange(t.temperature)
  THEN Returns(format_error_pos("shared", <<"Temperature out of range">>,
                                <<"Temperature must be between 0.0 and 1.0">>))
  ELSE IF t.language # "" /\ t.language \notin valid_languages
  THEN Returns(format_error_pos("shared", <<"Language not supported">>,
                                <<"Use one of: en, es, fr, de, it, pt, pl, hi, ja, ko, zh">>))
  ELSE Calls([method |-> "POST", endpoint |-> "/convai/agents",
              params |-> NoParams, use_cache |-> FALSE])

\* update_agent of agents/src/server.py up to client.update_agent(...)
UpdateAgentEntry(t) ==
  IF validate_elevenlabs_id("shared", t.id, "agent") # "True"
  THEN Returns(SharedFormatError(<<"Invalid agent ID format">>, None, None))
  ELSE IF t.temperature # "None" /\ ~IsFloat(t.temperature)
  THEN Returns(format_error_pos("shared", <<"Temperature must be a number">>,
                                <<"Use a value between 0.0 (deterministic) and 1.0 (creative)">>))
  ELSE IF t.temperature # "None" /\ ~TemperatureInRange(t.temperature)
  THEN Returns(format_error_pos("shared", <<"Temperature out of range">>,
                                <<"Temperature must be between 0.0 and 1.0">>))
  ELSE IF t.name = <<>> /\ t.prompt = <<>> /\ t.first = <<>> /\ t.temperature = "None"
  THEN Returns(SharedFormatError(<<"No update fields provided">>, None, None))
  ELSE Calls([method |-> "PATCH", endpoint |-> "/convai/agents/{agent_id}",
              params |-> NoParams, use_cache |-> FALSE])

\* get_conversation of conversations/src/tools/conversations.py up to
\* client.get_conversation(...); the validator runs inside the try block
GetConversationEntry(t) ==
  LET ok == validate_elevenlabs_id("standalone", t.id, "conversation")
  IN  IF ok = "TypeError" THEN Raises("TypeError", TRUE)
      ELSE IF ok # "True"
      THEN Returns(StandaloneFormatError(<<"Invalid conversation ID format">>, None))
      ELSE Calls([method |-> "GET", endpoint |-> "/convai/conversations/{conversation_id}",
                  params |-> NoParams, use_cache |-> TRUE])

\* params of get_secrets: {} or {"agent_id": agent_id}
SecretsParams(id) ==
  [isNone |-> FALSE,
   items |-> IF id.isNone \/ id.chars = <<>> THEN <<>> ELSE << <<"agent_id", "{agent_id}">> >>]

\* get_secrets of integrations/src/server.py (and tools/src/tools/secrets.py)
\* up to client._request(...): agent_id is validated only when given
GetSecretsEntry(t) ==
  IF ~t.id.isNone /\ t.id.chars # <<>>
     /\ validate_elevenlabs_id("standalone", t.id, "agent") # "True"
  THEN Returns(StandaloneFormatError(<<"Invalid agent ID format">>,
                                     <<"Use format: agent_XXXX">>))
  ELSE Calls([method |-> "GET", endpoint |-> "/convai/secrets",
              params |-> SecretsParams(t.id), use_cache |-> TRUE])

\* create_secret of integrations/src/server.py up to client._request(...)
CreateSecretEntry(t) ==
  LET ok == validate_elevenlabs_id("standalone", t.id, "agent")
  IN  IF ok = "TypeError" THEN Raises("TypeError", TRUE)
      ELSE IF ok # "True"
      THEN Returns(StandaloneFormatError(<<"Invalid agent ID format">>,
                                         <<"Use format: agent_XXXX">>))
      ELSE Calls([method |-> "POST", endpoint |-> "/convai/secrets",
                  params |-> NoParams, use_cache |-> FALSE])

\* get_agent of agents/src/server.py up to client.get_agent(...)
GetAgentEntry(t) ==
  IF t.id.isNone \/ t.id.chars = <<>>
  THEN Returns(format_error_pos("shared", <<"Agent ID is required">>,
                                <<"Provide agent_id from create_agent() or list_agents()">>))
  ELSE IF validate_elevenlabs_id("shared", t.id, "agent") # "True"
  THEN Returns(format_error_pos("shared", <<"Invalid agent ID format">>,
                                <<"Use format: agent_XXXXXXXXXXXXXXXXXXXXXXXXXXXX (agent_ + 28 chars) or valid UUID">>))
  ELSE Calls([method |-> "GET", endpoint |-> "/convai/agents/{agent_id}",
              params |-> NoParams, use_cache |-> TRUE])

\* get_test_invocation of testing/src/tools/execution.py up to
\* client._request(...)
GetTestInvocationEntry(t) ==
  IF t.id.isNone \/ t.id.chars = <<>>
  THEN Returns(StandaloneFormatError(<<"Invocation ID is required">>,
                                     <<"Provide invocation_id from run_tests_on_agent()">>))
  ELSE IF validate_elevenlabs_id("standalone", t.id, "invocation") # "True"
  THEN Returns(StandaloneFormatError(<<"Invalid invocation ID format">>,
                                     <<"Use format: inv_XXXXXXXXXXXXXXXXXXXXXXXXXXXX">>))
  ELSE Calls([method |-> "GET", endpoint |-> "/convai/test-invocations/{invocation_id}",
              params |-> NoParams, use_cache |-> TRUE])

\* The return of create_agent_from_template after create_agent returned
\* the envelope created: format_success, whatever result.get("success") is.
TemplateReturn(t, created) ==
  [kind |-> "envelope",
   env |-> format_success("shared", <<"Agent created from template: ", t.template>>,
                          <<"{", "agent", ": ">>
                            \o (IF "data" \in DOMAIN created THEN created.data ELSE None)
                            \o <<", ", "template_used", ": ", t.template, "}">>),
   exc |-> "none", inTry |-> TRUE, r |-> NoReq, inner |-> created]

\* create_agent_from_template of agents/src/server.py up to the client call
\* of the create_agent it awaits
TemplateEntry(t) ==
  IF DOMAIN TemplatesFile = {}
  THEN Returns(format_error_pos("shared", <<"No templates available">>,
                                <<"Template file may be missing">>))
  ELSE IF t.template \notin DOMAIN TemplatesFile
  THEN Returns(format_error_pos("shared", <<"Template '", t.template, "' not found">>,
                                <<"Available: customer_support_pro">>))
  ELSE IF CreateAgentEntry(t).kind = "envelope"
  THEN TemplateReturn(t, CreateAgentEntry(t).env)
  ELSE CreateAgentEntry(t)

\* list_voices of agents/src/server.py up to client._request(...)
ListVoicesEntry(t) ==
  Calls([method |-> "GET", endpoint |-> "/voices", params |-> NoParams,
         use_cache |-> TRUE])

ToolEntry(t) ==
  IF t.fn = "create_agent" THEN CreateAgentEntry(t)
  ELSE IF t.fn = "list_voices" THEN ListVoicesEntry(t)
  ELSE IF t.fn = "create_agent_from_template" THEN TemplateEntry(t)
  ELSE IF t.fn = "get_agent" THEN GetAgentEntry(t)
  ELSE IF t.fn = "get_test_invocation" THEN GetTestInvocationEntry(t)
  ELSE IF t.fn = "update_agent" THEN UpdateAgentEntry(t)
  ELSE IF t.fn = "get_secrets" THEN GetSecretsEntry(t)
  ELSE IF t.fn = "create_secret" THEN CreateSecretEntry(t)
  ELSE GetConversationEntry(t)

\* the except handler of the tool function
ToolHandler(t, exc) ==
  IF t.fn \in {"create_agent", "create_agent_from_template"}
  THEN \* of create_agent; create_agent_from_template goes on with the envelope
       format_error_pos("shared", StrOf(exc), CreateSuggestion(exc))
  ELSE IF t.fn = "get_agent"
  THEN format_error_pos("shared", StrOf(exc),
                        <<"Verify agent ID format and that the agent exists">>)
  ELSE IF t.fn \in {"update_agent", "list_voices"}
  THEN SharedFormatError(StrOf(exc), None, None)
  ELSE StandaloneFormatError(StrOf(exc), None)

\* voice_presets.json as loaded into VOICE_PRESETS: one preset, for the voice
\* the body "b1" lists
VOICE_PRESETS == [professional |-> [voice_id |-> "voice1", description |-> "clear"]]

\* The fields the loop of list_voices sets on a voice whose voice_id a preset
\* names: preset_name and the preset's data.
PresetFields(voice_id) ==
  IF \E n \in DOMAIN VOICE_PRESETS : VOICE_PRESETS[n].voice_id = voice_id
  THEN LET n == CHOOSE m \in DOMAIN VOICE_PRESETS : VOICE_PRESETS[m].voice_id = voice_id
       IN <<", ", "preset_name", ": ", n,
            ", ", "preset_description", ": ", VOICE_PRESETS[n].description>>
  ELSE <<>>

\* The list under "voices" of the parsed body of GET /voices: the body "b1"
\* lists one voice, the empty body none. looped tells whether list_voices
\* has run its loop over the voices of this object.
VoicesOf(value, looped) ==
  IF value = "b1"
  THEN <<"[", "{", "voice_id", ": ", "voice1">>
         \o (IF looped THEN PresetFields("voice1") ELSE <<>>) \o <<"}", "]">>
  ELSE <<"[", "]">>

\* len(enhanced_voices)
VoicesCount(value) == IF value = "b1" THEN "1" ELSE "0"

\* The parsed body of GET /convai/secrets: the body "b1" lists one secret
\* with its value, the empty body parses to {}.
SecretsOf(value) ==
  IF value = "b1"
  THEN <<"[", "{", "name", ": ", "key", ", ", "value", ": ", SecretValue, "}", "]">>
  ELSE <<"[", "]">>

\* len(secrets)
SecretsCount(value) == IF value = "b1" THEN "1" ELSE "0"

\* The parsed body of POST /convai/secrets: the body "b1" is the stored
\* secret, echoed with the value it was created with.
SecretOf(value, shown) ==
  IF value = "b1"
  THEN <<"{", "name", ": ", "key", ", ", "value", ": ", shown, "}">>
  ELSE <<"{", "}">>

\* the code after the client call returned value: the envelope, or the
\* exception it raises (result.get on None)
ToolAfter(t, value) ==
  IF value = "None" /\ t.fn \in {"get_secrets", "create_secret"}
  THEN Raises(IF t.fn = "get_secrets" THEN "AttributeError" ELSE "TypeError", TRUE)
  ELSE IF t.fn = "list_voices"
  THEN (IF value = "None" THEN Raises("AttributeError", TRUE)
        ELSE Returns(format_success("shared", <<"Found ", VoicesCount(value), " voices">>,
                                    <<"{", "count", ": ", VoicesCount(value), ", ",
                                      "voices", ": ">> \o VoicesOf(value, TRUE) \o <<"}">>)))
  ELSE IF t.fn = "get_secrets"
  THEN Returns(format_success("standalone", <<"Found ", SecretsCount(value), " secrets">>,
                              <<"{", "secrets", ": ">> \o SecretsOf(value)
                                \o <<", ", "count", ": ", SecretsCount(value), "}">>))
  ELSE IF t.fn = "create_secret"
  THEN \* if "value" in result: result["value"] = "***"
       Returns(format_success("standalone", <<"Created secret">>,
                              Dict1("secret", SecretOf(value, "***"))))
  ELSE IF t.fn = "get_agent"
  THEN Returns(format_success("shared", <<"Retrieved agent details">>,
                              Dict1("agent", <<value>>)))
  ELSE IF t.fn = "get_test_invocation"
  THEN Returns(format_success("standalone", <<"Retrieved test invocation results">>,
                              Dict1("invocation", <<value>>)))
  ELSE IF t.fn \in {"create_agent", "create_agent_from_template"}
  THEN (IF value = "None" THEN Raises("AttributeError", TRUE)
        ELSE Returns(format_success("shared", <<"Agent created successfully">>,
                                    Dict1("agent_id", <<value>>))))
  ELSE IF t.fn = "update_agent"
  THEN Returns(format_success("shared", <<"Agent updated successfully">>,
                              Dict1("agent", <<value>>)))
  ELSE Returns(format_success("standalone", <<"Retrieved conversation details">>,
                              Dict1("conversation", <<value>>)))

(* ------------------------------- Init --------------------------------- *)
\* the client as constructed, no call made yet
InitState ==
  /\ variant \in {"shared", "standalone"}
  /\ now = 0
  /\ cache = [k \in {} |-> "{}"]
  /\ storedAt = [k \in {} |-> 0]
  /\ expiries = EmptyBag
  /\ pc = [p \in Tasks |-> "idle"]
  /\ req = [p \in Tasks |-> NoReq]
  /\ attempts = [p \in Tasks |-> 0]
  /\ last_exception = [p \in Tasks |-> "None"]
  /\ lastFailure = [p \in Tasks |-> "none"]
  /\ allTransient = [p \in Tasks |-> TRUE]
  /\ respText = [p \in Tasks |-> "none"]
  /\ result = [p \in Tasks |-> "unset"]
  /\ raised = [p \in Tasks |-> "none"]
  /\ hit = [p \in Tasks |-> FALSE]
  /\ seqFirst = [p \in Tasks |-> "none"]
  /\ seqIdentical = [p \in Tasks |-> FALSE]
  /\ binary = [p \in Tasks |-> FALSE]
  /\ delay = [p \in Tasks |-> initial_delay]
  /\ sleep_time = [p \in Tasks |-> 0]

\* no helper has been called
InitCallers ==
  /\ validated = [value |-> PyNone, id_type |-> "None", result |-> "none"]
  /\ formatted = [fn |-> "none", a |-> None, b |-> None, out |-> Fields({}, <<>>)]
  /\ tool = ToolCall("none", PyNone)
  /\ toolPc = "idle"
  /\ envelope = NoEnvelope
  /\ requests = 0
  /\ escaped = "none"
  /\ inner = NoEnvelope
  /\ enhanced = {}
  /\ AGENT_TEMPLATES = TemplatesFile
  /\ chunker = [text |-> <<>>, chunk_size |-> 1, overlap |-> 0, start |-> 0,
                 chunks |-> <<>>, iterations |-> 0, pc |-> "idle"]

\* client = ElevenLabsClient(Config.API_KEY) at module level: the agents
\* server after import, about to serve
InitAgentsProcess ==
  /\ server = "agents"
  /\ phase = "serving"
  /\ global_client = 1
  /\ clients = <<"module">>
  /\ using = 0
  /\ served = 0

\* the upstream holds the first version of the resource
InitUpstream ==
  /\ upstream = "v1"
  /\ upAtCall = "v1"
  /\ written = FALSE

Init ==
  /\ MAX_RETRIES \in 0..MaxRetriesCfg
  /\ InitState
  /\ InitCallers
  /\ InitAgentsProcess
  /\ InitUpstream

\* the same client under a configuration with more retries
InitDelay ==
  /\ MAX_RETRIES \in 0..MaxDelayRetries
  /\ InitState
  /\ InitCallers
  /\ InitAgentsProcess
  /\ InitUpstream

InitProc ==
  /\ MAX_RETRIES = MaxRetriesCfg
  /\ InitState
  /\ variant = "shared"
  /\ InitCallers
  /\ InitUpstream
  /\ server \in {"agents", "integrations", "audio", "voices"}
  /\ phase = (IF server = "integrations" THEN "init" ELSE "serving")
  /\ global_client = (IF server = "agents" THEN 1 ELSE 0)
  /\ clients = (IF server = "agents" THEN <<"module">> ELSE <<>>)
  /\ using = 0
  /\ served = 0

(* ------------------------------ helpers ------------------------------- *)
\* the pending _expire_cache tasks of one key
PendingSet(key) == {e \in BagToSet(expiries) : e.key = key}

\* and their number
PendingFor(key) == BagCardinality([e \in PendingSet(key) |-> expiries[e]])

\* stores still to come from calls in flight, plus expiry tasks that exist
Outstanding ==
  BagCardinality(expiries)
    + Cardinality({q \in Tasks : pc[q] \in {"net", "backoff"} /\ Cacheable(req[q].use_cache, req[q].method)})

\* the expiry task is handed the endpoint instead of the cache key
NewExpiryForEndpoint(key, p, t) ==
  [key |-> <<key[3]>>, due |-> ExpiryDue(t), by |-> p, clean |-> PendingFor(key) = 0]

\* the expiry task created by a store of key made by task p at the clock
\* value t; clean records that no expiry task for the key was pending then
NewExpiry(key, p, t) ==
  [key |-> key, due |-> ExpiryDue(t), by |-> p, clean |-> PendingFor(key) = 0]

\* the task's finished call stored its result in the cache
Stored(p) ==
  /\ pc[p] = "returned"
  /\ ~hit[p]
  /\ Cacheable(req[p].use_cache, req[p].method)

\* this call repeats the task's preceding call (same method, path and query
\* pairs) in sequence, inside the TTL window of the entry that call stored,
\* no other store of that entry's key overlapping
RepeatsInSequence(p, r) ==
  /\ Cacheable(r.use_cache, r.method)
  /\ Stored(p)
  /\ r.method = req[p].method
  /\ r.endpoint = req[p].endpoint
  /\ SameQuery(r.params, req[p].params)
  /\ PendingFor(KeyOf(req[p])) = 1
  /\ \A e \in PendingSet(KeyOf(req[p])) : e.by = p /\ e.clean /\ now < e.due

(* ------------------------------ actions ------------------------------- *)
\* _request, from its entry to its first suspension point: the cache check,
\* and on a miss the start of the retry loop around _do_request.
Request(p, r) ==
  LET key == CacheKey(r.method, r.endpoint, r.params)
      cacheable == Cacheable(r.use_cache, r.method)
  IN
  /\ pc[p] \in {"idle", "returned", "raised"}
  /\ cacheable => Outstanding < MaxPending
  /\ req' = [req EXCEPT ![p] = r]
  /\ attempts' = [attempts EXCEPT ![p] = 0]
  /\ last_exception' = [last_exception EXCEPT ![p] = "None"]
  /\ lastFailure' = [lastFailure EXCEPT ![p] = "none"]
  /\ allTransient' = [allTransient EXCEPT ![p] = TRUE]
  /\ respText' = [respText EXCEPT ![p] = "none"]
  /\ seqFirst' = [seqFirst EXCEPT ![p] =
                    IF RepeatsInSequence(p, r) THEN result[p] ELSE "none"]
  /\ seqIdentical' = [seqIdentical EXCEPT ![p] = RepeatsInSequence(p, r) /\ r = req[p]]
  /\ binary' = [binary EXCEPT ![p] = FALSE]
  /\ delay' = [delay EXCEPT ![p] = initial_delay]
  /\ sleep_time' = [sleep_time EXCEPT ![p] = 0]
  /\ UNCHANGED <<variant, MAX_RETRIES, now>>
  /\ IF CacheHit(r.use_cache, r.method, key, cache)
     THEN \* return self._cache[cache_key]
          /\ pc' = [pc EXCEPT ![p] = "returned"]
          /\ result' = [result EXCEPT ![p] = cache[key]]
          /\ raised' = [raised EXCEPT ![p] = "none"]
          /\ hit' = [hit EXCEPT ![p] = TRUE]
          /\ UNCHANGED <<cache, storedAt, expiries>>
     ELSE IF InRange(0, MAX_RETRIES)
     THEN \* first iteration of range(max_retries): await func()
          /\ pc' = [pc EXCEPT ![p] = "net"]
          /\ result' = [result EXCEPT ![p] = "unset"]
          /\ raised' = [raised EXCEPT ![p] = "none"]
          /\ hit' = [hit EXCEPT ![p] = FALSE]
          /\ UNCHANGED <<cache, storedAt, expiries>>
     ELSE IF variant = "shared"
     THEN \* range(0) is empty: raise last_exception with last_exception None
          /\ pc' = [pc EXCEPT ![p] = "raised"]
          /\ result' = [result EXCEPT ![p] = "unset"]
          /\ raised' = [raised EXCEPT ![p] = "TypeError"]
          /\ hit' = [hit EXCEPT ![p] = FALSE]
          /\ UNCHANGED <<cache, storedAt, expiries>>
     ELSE \* range(0) is empty and last_exception is None: the wrapper falls
          \* off its end, _do_request() evaluates to None
          /\ pc' = [pc EXCEPT ![p] = "returned"]
          /\ result' = [result EXCEPT ![p] = "None"]
          /\ raised' = [raised EXCEPT ![p] = "none"]
          /\ hit' = [hit EXCEPT ![p] = FALSE]
          /\ IF cacheable
             THEN /\ cache' = CacheStore(cache, key, "None")
                  /\ storedAt' = CacheStore(storedAt, key, now)
                  /\ expiries' = expiries (+) SetToBag({NewExpiry(key, p, now)})
             ELSE UNCHANGED <<cache, storedAt, expiries>>

\* _request_binary, from its entry to its first suspension point: no cache
\* check, straight into the retry loop around _do_request.
RequestBinary(p, r) ==
  /\ pc[p] \in {"idle", "returned", "raised"}
  /\ req' = [req EXCEPT ![p] = [method |-> r.method, endpoint |-> r.endpoint,
                                 params |-> r.params, use_cache |-> FALSE]]
  /\ binary' = [binary EXCEPT ![p] = TRUE]
  /\ delay' = [delay EXCEPT ![p] = initial_delay]
  /\ sleep_time' = [sleep_time EXCEPT ![p] = 0]
  /\ attempts' = [attempts EXCEPT ![p] = 0]
  /\ last_exception' = [last_exception EXCEPT ![p] = "None"]
  /\ lastFailure' = [lastFailure EXCEPT ![p] = "none"]
  /\ allTransient' = [allTransient EXCEPT ![p] = TRUE]
  /\ respText' = [respText EXCEPT ![p] = "none"]
  /\ seqFirst' = [seqFirst EXCEPT ![p] = "none"]
  /\ seqIdentical' = [seqIdentical EXCEPT ![p] = FALSE]
  /\ hit' = [hit EXCEPT ![p] = FALSE]
  /\ UNCHANGED <<variant, MAX_RETRIES, now, cache, storedAt, expiries>>
  /\ IF InRange(0, MAX_RETRIES)
     THEN /\ pc' = [pc EXCEPT ![p] = "net"]
          /\ result' = [result EXCEPT ![p] = "unset"]
          /\ raised' = [raised EXCEPT ![p] = "none"]
     ELSE IF variant = "shared"
     THEN \* raise last_exception with last_exception None
          /\ pc' = [pc EXCEPT ![p] = "raised"]
          /\ result' = [result EXCEPT ![p] = "unset"]
          /\ raised' = [raised EXCEPT ![p] = "TypeError"]
     ELSE \* the wrapper falls off its end: return None
          /\ pc' = [pc EXCEPT ![p] = "returned"]
          /\ result' = [result EXCEPT ![p] = "None"]
          /\ raised' = [raised EXCEPT ![p] = "none"]

\* One await of client.request(...) completes with outcome o, and the code
\* of _do_request, the retry wrapper and _request runs up to the next
\* suspension point or to the end of the call.
NetResponse(p, o) ==
  LET tag == OutcomeTag(o)
      attempt == attempts[p]          \* the loop variable, 0-based
      key == KeyOf(req[p])
  IN
  /\ pc[p] = "net"
  /\ attempts' = [attempts EXCEPT ![p] = attempt + 1]
  /\ UNCHANGED <<variant, MAX_RETRIES, now, req, hit, seqFirst, seqIdentical, binary>>
  /\ IF tag = "ok" /\ binary[p]
     THEN \* _request_binary: return await _do_request(), the response.content
          /\ pc' = [pc EXCEPT ![p] = "returned"]
          /\ respText' = [respText EXCEPT ![p] = o.text]
          /\ result' = [result EXCEPT ![p] = Content(o.text)]
          /\ last_exception' = [last_exception EXCEPT ![p] = "None"]
          /\ lastFailure' = [lastFailure EXCEPT ![p] = "none"]
          /\ UNCHANGED <<raised, allTransient, cache, storedAt, expiries,
                         delay, sleep_time>>
     ELSE IF tag = "ok"
     THEN \* result = await _do_request(); store if cacheable; return result
          /\ pc' = [pc EXCEPT ![p] = "returned"]
          /\ respText' = [respText EXCEPT ![p] = o.text]
          /\ result' = [result EXCEPT ![p] = ParseBody(o.text)]
          /\ last_exception' = [last_exception EXCEPT ![p] = "None"]
          /\ lastFailure' = [lastFailure EXCEPT ![p] = "none"]
          /\ UNCHANGED <<raised, allTransient, delay, sleep_time>>
          /\ IF Cacheable(req[p].use_cache, req[p].method)
             THEN /\ cache' = CacheStore(cache, key, ParseBody(o.text))
                  /\ storedAt' = CacheStore(storedAt, key, now)
                  /\ expiries' = expiries (+) SetToBag({NewExpiry(key, p, now)})
             ELSE UNCHANGED <<cache, storedAt, expiries>>
     ELSE /\ lastFailure' = [lastFailure EXCEPT ![p] = tag]
          /\ allTransient' = [allTransient EXCEPT ![p] = @ /\ tag \in Transient]
          /\ UNCHANGED <<respText, result, cache, storedAt, expiries>>
          /\ IF ~Retryable(variant, tag)
             THEN \* except Exception as e: raise e
                  /\ pc' = [pc EXCEPT ![p] = "raised"]
                  /\ raised' = [raised EXCEPT ![p] = tag]
                  /\ last_exception' = [last_exception EXCEPT ![p] = "None"]
                  /\ UNCHANGED <<delay, sleep_time>>
             ELSE IF SleepsAgain(attempt, MAX_RETRIES)
             THEN \* last_exception = e; await asyncio.sleep(...)
                  /\ pc' = [pc EXCEPT ![p] = "backoff"]
                  /\ last_exception' = [last_exception EXCEPT ![p] = RecordException(@, tag)]
                  /\ sleep_time' = [sleep_time EXCEPT ![p] = SleepTime(variant, delay[p], attempt)]
                  /\ delay' = [delay EXCEPT ![p] = DelayAfter(variant, @)]
                  /\ UNCHANGED raised
             ELSE IF InRange(attempt + 1, MAX_RETRIES)
             THEN \* no sleep, straight to the next iteration
                  /\ pc' = [pc EXCEPT ![p] = "net"]
                  /\ last_exception' = [last_exception EXCEPT ![p] = RecordException(@, tag)]
                  /\ UNCHANGED <<raised, delay, sleep_time>>
             ELSE \* the loop is exhausted: raise last_exception
                  /\ pc' = [pc EXCEPT ![p] = "raised"]
                  /\ raised' = [raised EXCEPT ![p] = RecordException(last_exception[p], tag)]
                  /\ last_exception' = [last_exception EXCEPT ![p] = "None"]
                  /\ UNCHANGED <<delay, sleep_time>>

\* asyncio.sleep of the retry loop ends: the loop goes round, and the next
\* iteration awaits func(), or the range is exhausted and the wrapper raises
Wakeup(p) ==
  /\ pc[p] = "backoff"
  /\ IF InRange(attempts[p], MAX_RETRIES)
     THEN /\ pc' = [pc EXCEPT ![p] = "net"]
          /\ UNCHANGED <<raised, last_exception>>
     ELSE /\ pc' = [pc EXCEPT ![p] = "raised"]
          /\ raised' = [raised EXCEPT ![p] = last_exception[p]]
          /\ last_exception' = [last_exception EXCEPT ![p] = "None"]
  /\ UNCHANGED <<variant, MAX_RETRIES, now, cache, storedAt, expiries, req,
                 attempts, lastFailure, allTransient, respText, result,
                 hit, seqFirst, seqIdentical, binary, delay, sleep_time>>

\* _expire_cache after its sleep: self._cache.pop(key, None)
ExpireCache(e) ==
  /\ BagIn(e, expiries)
  /\ e.due <= now
  /\ expiries' = expiries (-) SetToBag({e})
  /\ cache' = CachePop(cache, e.key)
  /\ storedAt' = CachePop(storedAt, e.key)
  /\ UNCHANGED <<variant, MAX_RETRIES, now, pc, req, attempts, last_exception,
                 lastFailure, allTransient, respText, result, raised, hit,
                 seqFirst, seqIdentical, binary, delay, sleep_time>>

\* The clock advances; a sleep that is over wakes its task before it does.
Tick ==
  /\ now < MaxTime
  /\ \A e \in BagToSet(expiries) : e.due > now
  /\ now' = now + 1
  /\ UNCHANGED <<variant, MAX_RETRIES, cache, storedAt, expiries, pc, req,
                 attempts, last_exception, lastFailure, allTransient, respText,
                 result, raised, hit, seqFirst, seqIdentical, binary,
                 delay, sleep_time>>

Next ==
  \/ \E p \in Tasks, r \in RequestArgs : Request(p, r) /\ UNCHANGED callerVars
  \/ \E p \in Tasks, o \in NetOutcomes : NetResponse(p, o) /\ UNCHANGED callerVars
  \/ \E p \in Tasks : Wakeup(p) /\ UNCHANGED callerVars
  \/ \E e \in BagToSet(expiries) : ExpireCache(e) /\ UNCHANGED callerVars
  \/ Tick /\ UNCHANGED callerVars

Spec == Init /\ [][Next]_vars

\* One tool invocation at a time, making any of the calls of SeqArgs.
NextSeq ==
  \/ \E r \in SeqArgs : Request(1, r) /\ UNCHANGED callerVars
  \/ \E o \in NetOutcomes : NetResponse(1, o) /\ UNCHANGED callerVars
  \/ Wakeup(1) /\ UNCHANGED callerVars
  \/ \E e \in BagToSet(expiries) : ExpireCache(e) /\ UNCHANGED callerVars
  \/ Tick /\ UNCHANGED callerVars

SpecSeq == Init /\ [][NextSeq]_vars

\* One tool invocation at a time on the audio client: binary calls mixed
\* with the cached listing.
NextBin ==
  \/ \E r \in {[method |-> "POST", endpoint |-> "/sound-generation", params |-> NoParams],
               [method |-> "GET", endpoint |-> "/convai/conversations", params |-> LimitOffset]} :
       RequestBinary(1, r) /\ UNCHANGED callerVars
  \/ \E r \in RequestArgs : Request(1, r) /\ UNCHANGED callerVars
  \/ \E o \in NetOutcomes : NetResponse(1, o) /\ UNCHANGED callerVars
  \/ Wakeup(1) /\ UNCHANGED callerVars
  \/ \E e \in BagToSet(expiries) : ExpireCache(e) /\ UNCHANGED callerVars
  \/ Tick /\ UNCHANGED callerVars

SpecBin == Init /\ [][NextBin]_vars

\* One uncached call at a time under a configuration with many retries.
NextDelay ==
  \/ Request(1, NoReq) /\ UNCHANGED callerVars
  \/ \E o \in NetOutcomes : NetResponse(1, o) /\ UNCHANGED callerVars
  \/ Wakeup(1) /\ UNCHANGED callerVars

SpecDelay == InitDelay /\ [][NextDelay]_vars

\* validate_elevenlabs_id applied to an ID and a declared type
Validate(value, id_type) ==
  /\ validated' = [value |-> value, id_type |-> id_type,
                    result |-> validate_elevenlabs_id(variant, value, id_type)]
  /\ UNCHANGED <<pipeVars, formatted, toolVars, procVars, upVars, moreVars>>

\* format_success(message, data)
FormatSuccess(message, data) ==
  /\ formatted' = [fn |-> "format_success", a |-> message, b |-> data,
                    out |-> format_success(variant, message, data)]
  /\ UNCHANGED <<pipeVars, validated, toolVars, procVars, upVars, moreVars>>

\* format_error(error, suggestion=s)
FormatError(error, s) ==
  /\ formatted' = [fn |-> "format_error", a |-> error, b |-> s,
                    out |-> format_error_kw(variant, error, s)]
  /\ UNCHANGED <<pipeVars, validated, toolVars, procVars, upVars, moreVars>>

\* The pure helpers of a package's utils, applied to drawn arguments.
NextUtil ==
  \/ \E value \in {PyNone, Str(<<>>), Str(UuidSample),
                   Str(<<"i", "n", "v", "a", "l", "i", "d", "-", "f", "o", "r", "m", "a", "t">>)}
                    \cup {Str(pre \o Rep(c, n)) : pre \in {AgentPrefix, ConvPrefix},
                                                  c \in {"k", "7"},
                                                  n \in {IdLen - 1, IdLen, IdLen + 1}},
        t \in {"agent", "conversation", "document", "tool", "None"} : Validate(value, t)
  \/ \E m \in Messages, d \in {None, EmptyDict, <<"{", "x", ": ", "1", "}">>} : FormatSuccess(m, d)
  \/ \E e \in Messages, sg \in {None, EmptyStr, <<"fix it">>} : FormatError(e, sg)

SpecUtil == Init /\ [][NextUtil]_vars

\* The tool function ends with outcome o (of Returns or Raises): the
\* envelope is returned, or the exception is handled or leaves the function.
ToolReturns(t, o) ==
  /\ toolPc' = "done"
  /\ inner' = o.inner
  /\ IF o.kind = "envelope"
     THEN envelope' = o.env /\ escaped' = "none"
     ELSE IF o.inTry /\ ToolCatches(o.exc)
     THEN envelope' = ToolHandler(t, o.exc) /\ escaped' = "none"
     ELSE envelope' = NoEnvelope /\ escaped' = o.exc

\* The tool function ends with outcome o of the code after its client call.
\* Within create_agent_from_template that code is create_agent's: what
\* create_agent returns, from its body or from its handler, is the result
\* create_agent_from_template goes on with.
ToolEnds(t, o) ==
  IF t.fn = "create_agent_from_template" /\ o.inner = NoEnvelope /\ o.inTry
  THEN ToolReturns(t, TemplateReturn(t, IF o.kind = "envelope" THEN o.env
                                        ELSE ToolHandler(t, o.exc)))
  ELSE ToolReturns(t, o)

\* After a step of the client call: the tool function goes on when the call
\* has returned or raised, and stays suspended otherwise.
ToolSettles(t, issued) ==
  /\ requests' = issued + (IF pc'[1] = "net" THEN 1 ELSE 0)
  /\ IF pc'[1] = "returned" THEN ToolEnds(t, ToolAfter(t, result'[1]))
     ELSE IF pc'[1] = "raised" THEN ToolEnds(t, Raises(raised'[1], TRUE))
     ELSE toolPc' = "calling" /\ UNCHANGED <<envelope, escaped, inner>>

\* A tool function is invoked: its validation, and the client call up to
\* its first suspension point.
ToolInvoke(t) ==
  /\ toolPc \in {"idle", "done"}
  /\ PackageOf(t.fn) = variant
  /\ tool' = t
  /\ UNCHANGED <<validated, formatted, procVars>>
  /\ IF ToolEntry(t).kind = "call"
     THEN Request(1, ToolEntry(t).r) /\ ToolSettles(t, 0)
     ELSE /\ ToolEnds(t, ToolEntry(t))
          /\ requests' = 0
          /\ UNCHANGED pipeVars

\* the awaited network call of the invocation completes
ToolNetResponse(o) ==
  /\ toolPc = "calling"
  /\ NetResponse(1, o)
  /\ ToolSettles(tool, requests)
  /\ UNCHANGED <<validated, formatted, tool, procVars>>

\* the back-off sleep of the invocation's call ends
ToolWakeup ==
  /\ toolPc = "calling"
  /\ Wakeup(1)
  /\ ToolSettles(tool, requests)
  /\ UNCHANGED <<validated, formatted, tool, procVars>>

\* Tool invocations of one server process, one at a time.
NextTool ==
  \/ \E t \in ToolCalls : ToolInvoke(t) /\ UNCHANGED <<upVars, moreVars>>
  \/ \E o \in NetOutcomes : ToolNetResponse(o) /\ UNCHANGED <<upVars, moreVars>>
  \/ ToolWakeup /\ UNCHANGED <<upVars, moreVars>>
  \/ \E e \in BagToSet(expiries) : ExpireCache(e) /\ UNCHANGED callerVars
  \/ Tick /\ UNCHANGED callerVars

SpecTool == Init /\ [][NextTool]_vars

(* ------------------------------ claims -------------------------------- *)

C3_NoRetryOnHttpStatus ==
  \A p \in Tasks :
    lastFailure[p] = "http" =>
      (pc[p] = "raised" /\ raised[p] = "http" /\ attempts[p] = 1)

\* C4: a call never makes more than MAX_RETRIES network attempts, and a call
\* whose attempts all failed with a timeout/network error and which has
\* raised has made exactly MAX_RETRIES attempts and raised the error of the
\* last attempt.
C4_ExhaustedRaisesLast ==
  \A p \in Tasks :
    /\ attempts[p] <= MAX_RETRIES
    /\ (pc[p] = "raised" /\ allTransient[p] /\ lastFailure[p] # "none") =>
         (attempts[p] = MAX_RETRIES /\ raised[p] = lastFailure[p])

\* every attempt failed, the first with a timeout, the last with a network error
C4_Witness ==
  \E p \in Tasks :
    /\ pc[p] = "raised" /\ allTransient[p]
    /\ attempts[p] = MAX_RETRIES /\ MAX_RETRIES >= 2
    /\ raised[p] = "network"

\* C5: a transient failure on an attempt before the last is followed by
\* another attempt (the call neither raises nor returns on it), and the call
\* returns on the first attempt that succeeds, with that attempt's parsed
\* body; so N-1 transient failures and a success on attempt N <= MAX_RETRIES
\* give the result after exactly N network attempts.
C5_SuccessAfterTransient ==
  \A p \in Tasks :
    /\ (allTransient[p] /\ lastFailure[p] # "none" /\ attempts[p] < MAX_RETRIES)
         => pc[p] \in {"backoff", "net"}
    /\ (pc[p] = "returned" /\ attempts[p] >= 1) =>
         /\ respText[p] \in BodyTexts
         /\ result[p] = (IF respText[p] = "" THEN "{}" ELSE respText[p])
         /\ lastFailure[p] = "none"
    /\ pc[p] = "net" => (respText[p] = "none" /\ result[p] = "unset")

\* success on the second attempt after one transient failure
C5_Witness ==
  \E p \in Tasks :
    /\ pc[p] = "returned" /\ ~hit[p] /\ allTransient[p]
    /\ attempts[p] = 2 /\ result[p] = "b1"

\* C6: a cacheable GET that repeats the preceding call with the same
\* key/value pairs in its query, in whatever key order, is served from the
\* entry that call stored.
C6_KeyOrderIrrelevant ==
  \A p \in Tasks :
    seqFirst[p] # "none" => (hit[p] /\ result[p] = seqFirst[p])

\* C7: a call that has returned was answered from the cache or by a
\* successful network call whose parsed body it returns, and the cache holds
\* only parsed bodies of successful responses.
C7_NoSwallowedError ==
  /\ \A p \in Tasks :
       pc[p] = "returned" =>
         \/ hit[p]
         \/ /\ attempts[p] >= 1
            /\ respText[p] \in BodyTexts
            /\ result[p] = ParseBody(respText[p])
  /\ \A k \in DOMAIN cache : cache[k] \in {ParseBody(t) : t \in BodyTexts}

\* C8: the key of every store stays in the cache until the clock reaches the
\* store time plus the TTL, whatever expiry tasks were pending at the store.
C8_FullLifetime ==
  \A e \in BagToSet(expiries) : now < e.due => e.key \in DOMAIN cache

\* C9: several expiry tasks for one key are harmless: an expiry that fires
\* leaves its key absent and touches nothing else, it changes nothing when
\* the key is already absent, no call is disturbed by it, and a key is in the
\* cache only while an expiry task for it is still pending.
C9_ExpiryTolerated ==
  /\ [](\A k \in DOMAIN cache : PendingFor(k) >= 1)
  /\ [][\A e \in BagToSet(expiries) :
          ExpireCache(e) =>
            /\ e.key \notin DOMAIN cache'
            /\ \A k \in DOMAIN cache \ {e.key} : k \in DOMAIN cache' /\ cache'[k] = cache[k]
            /\ (e.key \notin DOMAIN cache => cache' = cache)
            /\ pc' = pc /\ raised' = raised /\ result' = result]_vars

\* the key was stored twice, the first expiry has fired and removed it, the
\* second expiry is due and will fire on an absent key
C9_Witness ==
  \E e \in BagToSet(expiries) :
    /\ ~e.clean
    /\ e.due <= now
    /\ e.key \notin DOMAIN cache

\* C10: a cache hit changes neither the cache nor the pending expiry tasks,
\* and every entry in the cache has an expiry task pending that fires at the
\* entry's store time plus the TTL, so no entry outlives that time.
C10_NonRefreshingTtl ==
  /\ [](\A k \in DOMAIN cache :
          /\ \E e \in PendingSet(k) : e.due = storedAt[k] + CacheTtlTicks
          /\ now <= storedAt[k] + CacheTtlTicks)
  /\ [][\A p \in Tasks, r \in RequestArgs :
          (Request(p, r) /\ CacheHit(r.use_cache, r.method, KeyOf(r), cache))
            => UNCHANGED <<cache, storedAt, expiries>>]_vars

\* the entry was read after its store and is gone when the TTL has elapsed
C10_Witness ==
  \E p \in Tasks :
    /\ hit[p] /\ pc[p] = "returned"
    /\ now = CacheTtlTicks
    /\ KeyOf(req[p]) \notin DOMAIN cache
    /\ PendingFor(KeyOf(req[p])) = 0

\* C11: a step of a request changes the cache only by storing the parsed
\* body of the successful network call it has just made under the request's
\* own key, and only when the request is cacheable and its method is GET;
\* every other step of a request (one that is not cacheable, uses another
\* method, fails or raises) leaves the cache as it was.  Only an expiry task
\* removes.
C11_CacheFrame ==
  [][cache' # cache =>
       \/ \E e \in BagToSet(expiries) : ExpireCache(e)
       \/ \E p \in Tasks :
            /\ pc[p] = "net" /\ pc'[p] = "returned"
            /\ attempts'[p] = attempts[p] + 1
            /\ respText'[p] \in BodyTexts
            /\ req[p].use_cache /\ req[p].method = "GET"
            /\ cache' = CacheStore(cache, KeyOf(req[p]), ParseBody(respText'[p]))]_vars

\* C12: a binary call never reads or writes the cache: it is never a hit,
\* its steps leave the cache and the expiry tasks untouched, every binary
\* call reaches the network through the retry wrapper, and one that has
\* returned returns the raw body of the response it received.
C12_BinaryNeverCached ==
  /\ [](\A p \in Tasks :
          (binary[p] /\ pc[p] # "idle") =>
            /\ ~hit[p]
            /\ (pc[p] = "net" \/ attempts[p] >= 1)
            /\ pc[p] = "returned" => (respText[p] \in BodyTexts /\ result[p] = respText[p]))
  /\ [][(\E p \in Tasks : binary'[p] /\ pc'[p] # pc[p])
          => UNCHANGED <<cache, storedAt, expiries>>]_vars

\* C13: while the wrapper sleeps after the k-th failed attempt of a call,
\* the wait it chose is min(base_delay * 2^(k-1), max_delay), for every
\* configured MAX_RETRIES.
C13_BackoffDelay ==
  \A p \in Tasks :
    pc[p] = "backoff" =>
      sleep_time[p] = Min(initial_delay * 2 ^ (attempts[p] - 1), max_delay)

\* C18: format_success(m, d) returns exactly {success: true, message: m,
\* data: d} for every message and every data value d that is not None, and
\* format_error(e, suggestion=s) returns exactly {success: false, error: e,
\* suggestion: s} for every error and every suggestion string.
C18_EnvelopeShape ==
  /\ (formatted.fn = "format_success" /\ formatted.b # None) =>
        /\ DOMAIN formatted.out = {"success", "message", "data"}
        /\ formatted.out.success = TRUE
        /\ formatted.out.message = formatted.a
        /\ formatted.out.data = formatted.b
  /\ (formatted.fn = "format_error" /\ formatted.b # None) =>
        /\ DOMAIN formatted.out = {"success", "error", "suggestion"}
        /\ formatted.out.success = FALSE
        /\ formatted.out.error = formatted.a
        /\ formatted.out.suggestion = formatted.b

\* C19: for declared type agent, agent_ followed by exactly 28 alphanumeric
\* characters is accepted and agent_ followed by 27 or by 29 is rejected;
\* likewise conv_ followed by 27 or 29 is rejected for type conversation.
C19_IdLength ==
  LET chars == validated.value.chars
      Suffixed(pre, n) ==
        /\ ~validated.value.isNone
        /\ StartsWith(chars, pre)
        /\ Len(chars) = Len(pre) + n
        /\ \A i \in (Len(pre) + 1)..Len(chars) : chars[i] \in Alnum
  IN
  /\ (validated.id_type = "agent" /\ Suffixed(AgentPrefix, IdLen))
        => validated.result = "True"
  /\ (/\ validated.id_type = "agent"
      /\ (Suffixed(AgentPrefix, IdLen - 1) \/ Suffixed(AgentPrefix, IdLen + 1)))
        => validated.result = "False"
  /\ (/\ validated.id_type = "conversation"
      /\ (Suffixed(ConvPrefix, IdLen - 1) \/ Suffixed(ConvPrefix, IdLen + 1)))
        => validated.result = "False"

\* C20: a well-formed UUID (8-4-4-4-12 hexadecimal digits) is accepted
\* whatever ID type is declared, or none.
C20_UuidAnyType ==
  LET chars == validated.value.chars
      hyphens == {9, 14, 19, 24}
  IN
  (/\ validated.result # "none"
   /\ Len(chars) = 36
   /\ \A i \in 1..36 : IF i \in hyphens THEN chars[i] = "-" ELSE chars[i] \in HexDigits)
    => validated.result = "True"

\* C21: for every declared ID type the validator returns false, and does not
\* raise, when the value is the empty string or None.
C21_EmptyOrNoneFails ==
  (/\ validated.result # "none"
   /\ validated.id_type # "None"
   /\ (validated.value.isNone \/ validated.value.chars = <<>>))
    => validated.result = "False"

(* ------------------------- upstream resource state --------------------- *)
\* What the upstream answers to request r while it holds up: a failure, or
\* 200 with the resource as it is (GET) or as the write leaves it.
UpOutcomes(r, up) ==
  {[kind |-> "timeout", status |-> 0, text |-> ""],
   [kind |-> "network", status |-> 0, text |-> ""],
   [kind |-> "response", status |-> 404, text |-> ""],
   [kind |-> "response", status |-> 200,
    text |-> IF r.method = "GET" THEN up ELSE (IF up = "v1" THEN "v2" ELSE "v1")]}

\* a tool is invoked against the upstream as it is now
UpInvoke(t) ==
  /\ ToolInvoke(t)
  /\ upAtCall' = upstream
  /\ UNCHANGED <<upstream, written, moreVars>>

\* the upstream answers the awaited call; a successful write changes the
\* resource it holds
UpResponse(o) ==
  /\ o \in UpOutcomes(req[1], upstream)
  /\ ToolNetResponse(o)
  /\ IF OutcomeTag(o) = "ok" /\ req[1].method # "GET"
     THEN upstream' = o.text /\ written' = TRUE
     ELSE UNCHANGED <<upstream, written>>
  /\ UNCHANGED <<upAtCall, moreVars>>

\* Reads and writes of one agent through the one client of the agents server.
NextRW ==
  \/ \E t \in {ToolCall("get_agent", GoodAgentId), UpdateBase} : UpInvoke(t)
  \/ \E o \in UpOutcomes(req[1], upstream) : UpResponse(o)
  \/ ToolWakeup /\ UNCHANGED <<upVars, moreVars>>
  \/ \E e \in BagToSet(expiries) : ExpireCache(e) /\ UNCHANGED callerVars
  \/ Tick /\ UNCHANGED callerVars

SpecRW == Init /\ [][NextRW]_vars

\* a test invocation the upstream is still running
InitPoll ==
  /\ MAX_RETRIES \in 0..MaxRetriesCfg
  /\ InitState
  /\ InitCallers
  /\ InitAgentsProcess
  /\ upstream = "running"
  /\ upAtCall = "running"
  /\ written = FALSE

\* the upstream finishes the test run
UpstreamCompletes ==
  /\ upstream = "running"
  /\ upstream' = "completed"
  /\ UNCHANGED <<pipeVars, utilToolVars, procVars, upAtCall, written, moreVars>>

\* A test invocation polled through the one client of the testing server.
NextPoll ==
  \/ UpInvoke(ToolCall("get_test_invocation", Str(<<"i", "n", "v", "_">> \o Rep("k", IdLen))))
  \/ \E o \in UpOutcomes(req[1], upstream) : UpResponse(o)
  \/ ToolWakeup /\ UNCHANGED <<upVars, moreVars>>
  \/ UpstreamCompletes
  \/ \E e \in BagToSet(expiries) : ExpireCache(e) /\ UNCHANGED callerVars
  \/ Tick /\ UNCHANGED callerVars

SpecPoll == InitPoll /\ [][NextPoll]_vars

(* ------------------------- objects held by the cache -------------------- *)
\* The loop of list_voices runs on the object its client call returned, which
\* is the object the cache holds under the key of the call: once the call
\* has returned, the stored object has been through the loop.
LoopedOver(looped, task) ==
  IF pc'[task] = "returned" /\ result'[task] # "None"
  THEN (looped \cup {CacheKey(req'[task].method, req'[task].endpoint, req'[task].params)})
         \cap DOMAIN cache'
  ELSE looped \cap DOMAIN cache'

\* list_voices is invoked
VoicesInvoke ==
  /\ ToolInvoke(ToolCall("list_voices", PyNone))
  /\ enhanced' = LoopedOver(enhanced, 1)
  /\ UNCHANGED <<upVars, AGENT_TEMPLATES, chunker>>

\* the network call of list_voices completes
VoicesNetResponse(o) ==
  /\ ToolNetResponse(o)
  /\ enhanced' = LoopedOver(enhanced, 1)
  /\ UNCHANGED <<upVars, AGENT_TEMPLATES, chunker>>

\* a cache entry is popped, and its object with it
VoicesExpire(e) ==
  /\ ExpireCache(e)
  /\ enhanced' = enhanced \cap DOMAIN cache'
  /\ UNCHANGED <<utilToolVars, procVars, upVars, AGENT_TEMPLATES, chunker>>

\* The voices listed again and again through the one client of the agents
\* server.
NextVoices ==
  \/ VoicesInvoke
  \/ \E o \in NetOutcomes : VoicesNetResponse(o)
  \/ ToolWakeup /\ UNCHANGED <<upVars, moreVars>>
  \/ \E e \in BagToSet(expiries) : VoicesExpire(e)
  \/ Tick /\ UNCHANGED callerVars

SpecVoices == Init /\ [][NextVoices]_vars

(* ----------------------------- agent templates ------------------------- *)
\* create_agent_from_template is invoked: the modifications are written into
\* the config of the template, inside the table, before create_agent is
\* called with what the config then holds.
TemplateInvoke(t) ==
  /\ ToolInvoke(TemplateArgs(AGENT_TEMPLATES, t))
  /\ AGENT_TEMPLATES' = ApplyModifications(AGENT_TEMPLATES, t)
  /\ UNCHANGED <<upVars, enhanced, chunker>>

\* Agents created from the template, one invocation at a time.
NextTpl ==
  \/ \E t \in TemplateCalls : TemplateInvoke(t)
  \/ \E o \in NetOutcomes : ToolNetResponse(o) /\ UNCHANGED <<upVars, moreVars>>
  \/ ToolWakeup /\ UNCHANGED <<upVars, moreVars>>

SpecTpl == Init /\ [][NextTpl]_vars

(* ------------------------------ chunk_text ----------------------------- *)

Texts == UNION {[1..n -> {"a", " ", "."}] : n \in 0..MaxTextLen}

\* [". ", "! ", "? ", "\n\n", "\n", " "]
Separators == <<<<".", " ">>, <<"!", " ">>, <<"?", " ">>, <<"\n", "\n">>, <<"\n">>, <<" ">>>>

\* a slice index as Python normalises it: a negative index counts from the
\* end, and the result is clamped to 0..len
SliceIndex(i, n) == IF i < 0 THEN (IF i + n < 0 THEN 0 ELSE i + n) ELSE Min(i, n)

\* text[a:b]
Slice(text, a, b) ==
  SubSeq(text, SliceIndex(a, Len(text)) + 1, SliceIndex(b, Len(text)))

\* text.rfind(sep, a, b): the highest index in text[a:b] where sep occurs,
\* -1 when it does not occur
rfind(text, sep, a, b) ==
  LET found == {i \in SliceIndex(a, Len(text))..(SliceIndex(b, Len(text)) - Len(sep)) :
                  SubSeq(text, i + 1, i + Len(sep)) = sep}
  IN  IF found = {} THEN -1 ELSE CHOOSE i \in found : \A j \in found : j <= i

\* s.strip()
strip(s) ==
  LET kept == {i \in DOMAIN s : s[i] \notin {" ", "\n"}}
  IN  IF kept = {} THEN <<>>
      ELSE SubSeq(s, CHOOSE i \in kept : \A j \in kept : i <= j,
                     CHOOSE i \in kept : \A j \in kept : j <= i)

\* end as one iteration of the loop computes it from start: start +
\* chunk_size, moved back to just after the last occurrence of the first
\* separator of the list that occurs in text[start:end]
ChunkEnd(c) ==
  LET n == Len(c.text)
      end == Min(c.start + c.chunk_size, n)
      seps == {k \in DOMAIN Separators : rfind(c.text, Separators[k], c.start, end) # -1}
  IN  IF end < n /\ seps # {}
      THEN LET k == CHOOSE m \in seps : \A j \in seps : m <= j
           IN  rfind(c.text, Separators[k], c.start, end) + Len(Separators[k])
      ELSE end

\* chunk_text(text, chunk_size, overlap) up to the test of its loop
ChunkText(text, chunk_size, overlap) ==
  /\ chunker.pc = "idle"
  /\ chunker' = [text |-> text, chunk_size |-> chunk_size, overlap |-> overlap,
                  start |-> 0, chunks |-> <<>>, iterations |-> 0,
                  pc |-> IF text = <<>> THEN "done" ELSE "loop"]
  /\ UNCHANGED <<pipeVars, utilToolVars, procVars, upVars, enhanced, AGENT_TEMPLATES>>

\* one iteration of the loop of chunk_text, and the test that follows it
ChunkIteration ==
  /\ chunker.pc = "loop"
  /\ chunker.iterations < MaxIterations
  /\ LET n == Len(chunker.text)
         end == ChunkEnd(chunker)
         chunk == strip(Slice(chunker.text, chunker.start, end))
         start == IF end < n THEN end - chunker.overlap ELSE n
     IN  chunker' = [chunker EXCEPT
                       !.chunks = IF chunk # <<>> THEN Append(@, chunk) ELSE @,
                       !.start = start,
                       !.iterations = @ + 1,
                       !.pc = IF start < n THEN "loop" ELSE "done"]
  /\ UNCHANGED <<pipeVars, utilToolVars, procVars, upVars, enhanced, AGENT_TEMPLATES>>

InitChunk ==
  /\ MAX_RETRIES = MaxRetriesCfg
  /\ InitState
  /\ variant = "shared"
  /\ InitCallers
  /\ InitAgentsProcess
  /\ InitUpstream

\* chunk_text applied to the texts, sizes and overlaps drawn, with
\* chunk_size > overlap >= 0
NextChunk ==
  \/ \E text \in Texts, chunk_size \in 1..MaxChunkSize :
       \E overlap \in 0..(chunk_size - 1) : ChunkText(text, chunk_size, overlap)
  \/ ChunkIteration

SpecChunk == InitChunk /\ [][NextChunk]_vars

(* --------------------------- server processes -------------------------- *)
\* ElevenLabsClient(): a new instance with its own _client and _cache,
\* recorded with the code that constructed it
NewClient(cs, by) == Append(cs, by)

\* lifespan of integrations/src/server.py up to yield: the global client is
\* constructed and tested; sys.exit(1) when the connection test fails
Lifespan(connected) ==
  /\ server = "integrations"
  /\ phase = "init"
  /\ clients' = NewClient(clients, "lifespan")
  /\ global_client' = Len(clients')
  /\ phase' = (IF connected THEN "serving" ELSE "stopped")
  /\ UNCHANGED <<server, using, served, pipeVars, utilToolVars, upVars, moreVars>>

\* lifespan after yield: client.close() closes the pool of the global client
Shutdown ==
  /\ server = "integrations"
  /\ phase = "serving"
  /\ phase' = "stopped"
  /\ UNCHANGED <<server, global_client, clients, using, served, pipeVars, utilToolVars, upVars, moreVars>>

\* a tool of a server that calls the module-level client
GlobalClientTool ==
  /\ server \in {"agents", "integrations"}
  /\ phase = "serving"
  /\ served < MaxInvocations
  /\ served' = served + 1
  /\ using' = global_client
  /\ UNCHANGED <<server, phase, global_client, clients, pipeVars, utilToolVars, upVars, moreVars>>

\* A tool that constructs its client inside its try block, after its
\* argument checks: no client when the checks raise.
OwnClientTool(fn, valid) ==
  /\ phase = "serving"
  /\ served < MaxInvocations
  /\ served' = served + 1
  /\ IF valid
     THEN clients' = NewClient(clients, fn) /\ using' = Len(clients')
     ELSE clients' = clients /\ using' = 0
  /\ UNCHANGED <<server, phase, global_client, pipeVars, utilToolVars, upVars, moreVars>>

\* text_to_speech of audio/src/tools/tts.py
TextToSpeech(valid) == server = "audio" /\ OwnClientTool("text_to_speech", valid)

\* batch_generate_effects of audio/src/tools/effects.py, given n effects
BatchGenerateEffects(n) ==
  server = "audio" /\ OwnClientTool("batch_generate_effects", n > 0)

\* list_voices of voices/src/tools/voice_management.py
ListVoices(valid) == server = "voices" /\ OwnClientTool("list_voices", valid)

NextProc ==
  \/ \E connected \in BOOLEAN : Lifespan(connected)
  \/ Shutdown
  \/ GlobalClientTool
  \/ \E valid \in BOOLEAN : TextToSpeech(valid)
  \/ \E n \in 0..2 : BatchGenerateEffects(n)
  \/ \E valid \in BOOLEAN : ListVoices(valid)

SpecProc == InitProc /\ [][NextProc]_vars

\* C22: a server process owns one client instance, shared by all its tool
\* invocations; no tool invocation constructs a client of its own.
C22_OneClientPerProcess ==
  /\ Len(clients) <= 1
  /\ \A i \in 1..Len(clients) : clients[i] \in {"module", "lifespan"}
  /\ using \in {0, global_client}

\* C23: get_secrets returns the secret configurations with their values
\* hidden: no secret value of the upstream response, fetched or served from
\* the cache, appears in the envelope get_secrets returns.
C23_SecretsHidden ==
  (toolPc = "done" /\ tool.fn = "get_secrets" /\ "data" \in DOMAIN envelope) =>
    \A i \in DOMAIN envelope.data : envelope.data[i] # SecretValue

\* C24: after a write through the client has succeeded, a read of the same
\* resource through the same client returns the resource as the write left
\* it, not a value cached before the write.
C24_ReadReflectsWrite ==
  (/\ toolPc = "done"
   /\ tool.fn = "get_agent"
   /\ written
   /\ envelope # NoEnvelope
   /\ envelope.success) =>
    /\ "data" \in DOMAIN envelope
    /\ envelope.data = <<"{", "agent", ": ", upstream, "}">>

\* C25: when two identical cacheable GET requests are in flight at once on
\* one client, at most one network call is made for their key: never are
\* both awaiting the network for it.
C25_SingleFlight ==
  \A p, q \in Tasks :
    (/\ p # q
     /\ pc[p] = "net" /\ pc[q] = "net"
     /\ Cacheable(req[p].use_cache, req[p].method)
     /\ Cacheable(req[q].use_cache, req[q].method))
      => KeyOf(req[p]) # KeyOf(req[q])

\* C26: get_test_invocation reports the status the upstream holds at the
\* time of the call: called after the run has completed upstream, it does
\* not return an earlier running response.
C26_StatusCurrent ==
  (/\ toolPc = "done"
   /\ tool.fn = "get_test_invocation"
   /\ upAtCall = "completed"
   /\ envelope # NoEnvelope
   /\ "data" \in DOMAIN envelope) =>
    envelope.data # <<"{", "invocation", ": ", "running", "}">>

\* C27: the value served on a cache hit equals the response body the upstream
\* originally returned for that key: what list_voices adds to the voices of a
\* result it was returned (the preset fields) is not visible in the object the
\* cache holds, nor in what a later hit is served.
C27_StoredEntryUntouched ==
  \A k \in DOMAIN cache :
    VoicesOf(cache[k], k \in enhanced) = VoicesOf(cache[k], FALSE)

\* C28: create_agent_from_template returns an envelope with success true
\* only if the create_agent call it made returned success true; when
\* create_agent failed, on validation or on the upstream, the template tool
\* returns success false.
C28_TemplateSuccessNeedsCreate ==
  (/\ toolPc = "done"
   /\ tool.fn = "create_agent_from_template"
   /\ inner # NoEnvelope) =>
    (envelope.success = inner.success)

\* C29: create_agent_from_template leaves the table AGENT_TEMPLATES as it was
\* loaded: the modifications of one call reach only the agent of that call,
\* and a call without modifications passes the template's original values
\* to create_agent.
C29_TemplatesUnchanged ==
  /\ AGENT_TEMPLATES = TemplatesFile
  /\ (tool.fn = "create_agent_from_template" /\ tool.template \in DOMAIN TemplatesFile
       /\ tool.modifications = "None") =>
       tool.temperature = TemplatesFile[tool.template].config.temperature

\* C30: chunk_text terminates for every non-empty text and every
\* chunk_size > overlap >= 0: each iteration of its loop leaves start
\* strictly greater than it found it, and never negative.
C30_StartAdvances ==
  [][(chunker.pc = "loop" /\ chunker'.iterations = chunker.iterations + 1) =>
       (chunker'.start > chunker.start /\ chunker'.start >= 0)]_vars

C17_SuccessErrorExclusive ==
  (toolPc = "done" /\ envelope # NoEnvelope) =>
    /\ envelope.success => "error" \notin DOMAIN envelope
    /\ ~envelope.success => "data" \notin DOMAIN envelope

\* a failed invocation whose envelope carries diagnostic context
C17_Witness ==
  /\ toolPc = "done"
  /\ envelope # NoEnvelope
  /\ ~envelope.success
  /\ "details" \in DOMAIN envelope

\* C15: parameter constraints are validated before any network call: an
\* invocation with an argument outside its constraint never awaits the
\* client, and ends with an error envelope and no HTTP request issued.
C15_ValidatedBeforeNetwork ==
  LET \* an identifier of the documented format: the prefix followed by
      \* IdLen alphanumeric characters, or the UUID
      DocumentedId(prefix, id) ==
        /\ ~id.isNone
        /\ \/ id.chars = UuidSample
           \/ /\ Len(id.chars) = Len(prefix) + IdLen
              /\ \A i \in 1..Len(id.chars) :
                   IF i <= Len(prefix) THEN id.chars[i] = prefix[i]
                   ELSE id.chars[i] \in Alnum
      \* the invocation has an argument outside its documented constraint
      ViolatesConstraint(t) ==
        \/ /\ t.fn = "create_agent"
           /\ \/ \A i \in 1..Len(t.name) : t.name[i] = " "
              \/ Len(t.prompt) < 10
              \/ Len(t.first) < 5
              \/ t.temperature \in {"1.5", "abc"}
              \/ t.language = "xx"
        \/ /\ t.fn = "update_agent"
           /\ \/ ~DocumentedId(<<"a", "g", "e", "n", "t", "_">>, t.id)
              \/ t.temperature \in {"1.5", "abc"}
              \/ t.name = <<>> /\ t.prompt = <<>> /\ t.first = <<>> /\ t.temperature = "None"
        \/ /\ t.fn = "get_conversation"
           /\ ~DocumentedId(<<"c", "o", "n", "v", "_">>, t.id)
  IN  /\ toolPc = "calling" => ~ViolatesConstraint(tool)
      /\ (toolPc = "done" /\ ViolatesConstraint(tool)) =>
           /\ envelope # NoEnvelope
           /\ ~envelope.success
           /\ requests = 0

\* C16: every validation failure (bad ID format, out-of-range numeric
\* parameter, missing required field) is reported as an error envelope that
\* carries a corrective suggestion in its suggestion field.
C16_ValidationSuggestion ==
  LET \* an identifier of the documented format: the prefix followed by
      \* IdLen alphanumeric characters, or the UUID
      DocumentedId(prefix, id) ==
        /\ ~id.isNone
        /\ \/ id.chars = UuidSample
           \/ /\ Len(id.chars) = Len(prefix) + IdLen
              /\ \A i \in 1..Len(id.chars) :
                   IF i <= Len(prefix) THEN id.chars[i] = prefix[i]
                   ELSE id.chars[i] \in Alnum
      \* the invocation has an argument outside its documented constraint
      ViolatesConstraint(t) ==
        \/ /\ t.fn = "create_agent"
           /\ \/ \A i \in 1..Len(t.name) : t.name[i] = " "
              \/ Len(t.prompt) < 10
              \/ Len(t.first) < 5
              \/ t.temperature \in {"1.5", "abc"}
              \/ t.language = "xx"
        \/ /\ t.fn = "update_agent"
           /\ \/ ~DocumentedId(<<"a", "g", "e", "n", "t", "_">>, t.id)
              \/ t.temperature \in {"1.5", "abc"}
              \/ t.name = <<>> /\ t.prompt = <<>> /\ t.first = <<>> /\ t.temperature = "None"
        \/ /\ t.fn = "get_conversation"
           /\ ~DocumentedId(<<"c", "o", "n", "v", "_">>, t.id)
  IN  (toolPc = "done" /\ ViolatesConstraint(tool) /\ requests = 0
           /\ envelope # NoEnvelope /\ ~envelope.success) =>
        "suggestion" \in DOMAIN envelope

====
